---- MODULE Spec2Model ----
(***************************************************************************)
(* State-machine model of ray5_connector.py (Ray5Client + Ray5App).        *)
(*                                                                         *)
(* One coordinating context (the Tk main loop) runs the button handlers,   *)
(* the root.after callbacks and the fade timers, each atomically.  Every  *)
(* threading.Thread started by the program is a worker whose steps         *)
(* interleave with the main loop at the points where it touches shared     *)
(* state or the network.                                                   *)
(***************************************************************************)
EXTENDS Integers, Sequences, FiniteSets, Bags, TLC

(***************************************************************************)
(* Bounds of the model.  The handlers start threads and post callbacks     *)
(* without limit; each specification keeps its successor states within     *)
(* its own bounds.                                                         *)
(***************************************************************************)
\* SpecConnect: connect.task threads, refresh_list.task threads and
\* root.after(0, ...) callbacks alive at once
ConnectInFlight == 2
\* SpecRefresh: connect.task threads alive at once
RefreshHandshakes == 1
\* SpecRefresh: refresh_list.task threads alive at once
RefreshFetches == 2
\* SpecRefresh: root.after(0, ...) callbacks waiting
RefreshQueue == 1
\* SpecRefresh: files in one device listing
RefreshList == 1
\* SpecKeepalive: root.after(0, ...) callbacks waiting and root.after(50,
\* ...) timers of the dot pending
KeepaliveInFlight == 2
\* SpecBatch: threads alive and root.after(0, ...) callbacks waiting at once
BatchInFlight == 2
\* SpecPair: threads alive and root.after(0, ...) callbacks waiting at once
PairInFlight == 2
\* SpecFade: items of one upload batch
FadePaths == 2
\* SpecFade: files in one device listing
FadeList == 2
\* SpecCatalog: items of one upload or delete batch
CatalogPaths == 2
\* SpecCatalog: files in one device listing
CatalogList == 2

(***************************************************************************)
(* Program constants.                                                      *)
(***************************************************************************)
\* populate_tree: self.fade_item(item_id, 15)
FadeSeconds == 15

(***************************************************************************)
(* Addresses.  The text of the IP entry, after strip(), is modelled as the *)
(* sequence of its dot-separated parts; a part that is not a number is -1. *)
(***************************************************************************)
DefaultIp == <<192, 168, 1, 101>>
OtherIp == <<192, 168, 1, 102>>
EmptyIp == << >>
BadOctetIp == <<256, 1, 1, 1>>
HostNameIp == <<-1, -1>>

\* what the user may have typed when "Connect / Scan" is pressed
TypedAddresses == {DefaultIp, OtherIp, EmptyIp, BadOctetIp, HostNameIp}

\* 256^n for n in 1..3; a number of the model is always below 256^4
Pow256(n) == IF n = 1 THEN 256 ELSE IF n = 2 THEN 65536 ELSE 16777216

\* the last part fills the remaining bytes
LastPartFits(v, bytes) == v >= 0 /\ (bytes = 4 \/ v < Pow256(bytes))

\* a mutant of is_valid_ip that only looks at the number of parts
is_valid_ip_lenient(ip) == Len(ip) \in 1..4

\* socket.inet_aton: 1 to 4 numeric parts, the leading ones bytes, the last
\* one filling the remaining bytes
is_valid_ip(ip) ==
    /\ Len(ip) \in 1..4
    /\ \A i \in 1..(Len(ip) - 1) : ip[i] \in 0..255
    /\ LastPartFits(ip[Len(ip)], 5 - Len(ip))

(***************************************************************************)
(* Device responses to the identity command "[ESP420]".  A body is a       *)
(* sequence of tokens; a token is text, or an "STA (<mac>)" group.         *)
(***************************************************************************)
Txt(s) == [k |-> "txt", v |-> s]
Sta(m) == [k |-> "sta", v |-> m]

MacOf(ip) == IF ip = DefaultIp THEN "AA:BB:CC:DD:EE:FF" ELSE "AA:BB:CC:DD:EE:00"

\* the strings the class [0-9A-F:]+ matches in full
UpperHexMacs == {"AA:BB:CC:DD:EE:FF", "AA:BB:CC:DD:EE:00"}

\* what send_command("[ESP420]") may return for the device at ip
IdentityResponses(ip) ==
    { <<Txt("FW version"), Sta(MacOf(ip))>>,       \* our device
      <<Txt("FW version"), Sta("aa:bb:cc:dd:ee:ff")>>, \* marker, no match
      <<Sta(MacOf(ip))>>,                          \* 200 from something else
      <<Txt("Command error")>> }                   \* requests raised

\* a mutant of HasFirmwareMarker that accepts every body that is not the
\* "Command error: ..." text, as a status-code check would
HasFirmwareMarkerAnyBody(info) ==
    ~ \E i \in 1..Len(info) : info[i] = Txt("Command error")

\* "FW version" in info
HasFirmwareMarker(info) == \E i \in 1..Len(info) : info[i] = Txt("FW version")

IsStaMatch(tok) == tok.k = "sta" /\ tok.v \in UpperHexMacs

\* re.search(r"STA \(([0-9A-F:]+)\)", info); group(1) or "Unknown"
ParseMac(info) ==
    IF \E i \in 1..Len(info) : IsStaMatch(info[i])
    THEN LET first == CHOOSE i \in 1..Len(info) :
                         /\ IsStaMatch(info[i])
                         /\ \A j \in 1..(i - 1) : ~IsStaMatch(info[j])
         IN info[first].v
    ELSE "Unknown"

(***************************************************************************)
(* State.                                                                  *)
(***************************************************************************)
VARIABLES
    running,       \* self.running
    connected,     \* self.connected
    client,        \* self.client.ip
    current_mac,   \* self.current_mac
    status_label,  \* text of self.status_label
    config,        \* config.json: << >> or <<[last_mac, last_ip]>>
    tree,          \* rows of self.tree, in order, each with its fade timer
    afterQ,        \* pending root.after(0, ...) callbacks, in order
    hs,            \* connect.task threads (a bag)
    fetches,       \* refresh_list.task threads (a bag)
    uploads,       \* perform_upload.task threads (a bag)
    deletes,       \* delete.task threads (a bag)
    ka,            \* the keepalive loop: where check() is, and in which context
    dot            \* the status dot: its fill and the pending fade_dot timers
\* A thread's record holds its position and locals, and history fields
\* (info, saved, before, marked, succeeded, stale) that no step reads.

vars == <<running, connected, client, current_mac, status_label, config,
          tree, afterQ, hs, fetches, uploads, deletes, ka, dot>>


(***************************************************************************)
(* Files.                                                                  *)
(***************************************************************************)
\* file names the device may list
DeviceNames == {"a.nc", "b.nc", "successful.nc"}

SizeOf(name) == IF name = "a.nc" THEN 120 ELSE IF name = "b.nc" THEN 340 ELSE 7

RemoteFile(name) == [name |-> name, size |-> SizeOf(name)]

NoRepeat(s) == \A i, j \in 1..Len(s) : i # j => s[i] # s[j]

\* the "files" arrays the device may answer: unique names, any order
ListingsUpTo(max) ==
    { l \in UNION { [1..n -> {RemoteFile(x) : x \in DeviceNames}] : n \in 0..max } :
        NoRepeat(l) }

\* the listings of a device that lists its files by name
NameRank(name) == IF name = "a.nc" THEN 1 ELSE IF name = "b.nc" THEN 2 ELSE 3

Sorted(l) == \A i \in 1..(Len(l) - 1) : NameRank(l[i].name) < NameRank(l[i + 1].name)

\* answers to GET /files: 200 with a listing, a non-200 status, or an
\* exception (transport error, malformed body), code 0
FilesResponses(max) ==
    { [code |-> 200, files |-> l] : l \in ListingsUpTo(max) }
    \cup { [code |-> 500, files |-> << >>], [code |-> 0, files |-> << >>] }

\* Ray5Client.get_files: the listing on 200, [] on every failure
get_files(r) == IF r.code = 200 THEN r.files ELSE << >>

\* local paths the user may pick or drop: readable files, a file that
\* open() refuses, a directory, and a path that does not exist
LocalPaths ==
    { [name |-> "a.nc", kind |-> "file"],
      [name |-> "b.nc", kind |-> "file"],
      [name |-> "successful.nc", kind |-> "unreadable"],
      [name |-> "jobs", kind |-> "dir"],
      [name |-> "gone.nc", kind |-> "missing"] }

\* os.path.basename
basename(path) == path.name

\* the lower-cased words of a file name, as "in res.lower()" sees them
WordsOf(name) == IF name = "successful.nc" THEN <<"successful", "nc">>
                 ELSE IF name = "a.nc" THEN <<"a", "nc">>
                 ELSE IF name = "b.nc" THEN <<"b", "nc">>
                 ELSE IF name = "gone.nc" THEN <<"gone", "nc">>
                 ELSE <<name>>

\* outcomes of the POST of one readable file: 200, another status, or an
\* exception raised by requests (code 0)
PostCodes == {200, 500, 0}

\* Ray5Client.upload_file past os.path.getsize: the words of the returned
\* message.  open() failing, or requests raising, gives "Upload error: {e}";
\* the text of an OSError names the path.
upload_file(path, code) ==
    IF path.kind = "unreadable"
    THEN <<"upload", "error", "permission", "denied">> \o WordsOf(path.name)
    ELSE IF code = 200 THEN <<"upload", "successful">>
    ELSE IF code = 0 THEN <<"upload", "error", "timed", "out">>
    ELSE <<"upload", "failed">>

\* word in res.lower()
Contains(res, word) == \E i \in 1..Len(res) : res[i] = word

\* a batch: one to max distinct items of S
Batches(S, max) ==
    { b \in UNION { [1..n -> S] : n \in 1..max } : NoRepeat(b) }

(***************************************************************************)
(* Records.                                                                *)
(***************************************************************************)
StatusConnected == <<"Connected:", client, current_mac>>

\* a root.after(0, ...) callback with the values its lambda closes over:
\* ip, mac of on_connected; files, names (new_filenames) of populate_tree
\* and refresh_list.  The other fields are history, read by no handler:
\* info and saved are the response and the save_config outcome of the
\* thread that posted on_connected; failed is the outcome of the fetch
\* behind populate_tree, before and marked the names of the rows, and of
\* the rows with a tag, that its refresh_list call found; succeeded the
\* names the device accepted in the upload batch behind the refresh; stale
\* whether disconnect has run since the thread behind the callback started.
Callback(kind) ==
    [cb |-> kind, ip |-> << >>, mac |-> "", info |-> << >>, saved |-> "none",
     files |-> << >>, names |-> << >>, failed |-> FALSE, before |-> << >>,
     marked |-> {}, succeeded |-> << >>, stale |-> "no"]

\* history: disconnect runs while x is in flight; an operation whose
\* response is still awaited is "unresolved"
Stale(x, awaited) ==
    IF x.stale # "no" THEN x
    ELSE [x EXCEPT !.stale = IF awaited THEN "unresolved" ELSE "resolved"]

NamesOf(rows) == [i \in 1..Len(rows) |-> rows[i].name]

MarkedNames(rows) == {rows[i].name : i \in {j \in 1..Len(rows) : rows[j].tags > 0}}

\* threads of one kind form a bag: two threads in the same state are two
Threads(B) == BagToSet(B)
Count(B) == BagCardinality(B)
Add(B, w) == B (+) SetToBag({w})
Del(B, w) == B (-) SetToBag({w})
Replace(B, w, v) == Add(Del(B, w), v)

\* the thread connect starts for ip
HandshakeThread(ip) ==
    [ip |-> ip, pc |-> "send", info |-> << >>, mac |-> "", saved |-> "none",
     stale |-> "no"]

\* the keepalive loop: pc is "thread" (the thread of start_keepalive has
\* not run check yet), "timer" (root.after(2000, check) is pending), "sent"
\* (check waits in send_command) or "off"; ctx is the context check runs
\* in; ip the address the command went to; res the last response (history)
Keepalive(pc, ctx) ==
    [pc |-> pc, ctx |-> ctx, ip |-> << >>, res |-> << >>, stale |-> "no"]

\* fills of the dot: gray, or a green of level g ("#00gg00")
Gray == <<"gray">>
Green(g) == <<"green", g>>

\* the thread refresh_list starts
FetchThread(names, succeeded) ==
    [pc |-> "start", ip |-> << >>, names |-> names, before |-> NamesOf(tree),
     marked |-> MarkedNames(tree), succeeded |-> succeeded, stale |-> "no"]

\* what load_config may find at start: no file, or a saved pair
InitialConfigs ==
    { << >>, <<[last_mac |-> MacOf(DefaultIp), last_ip |-> DefaultIp]>> }

\* Ray5App.__init__: with a last_ip in the config, connect() has run
Init ==
    /\ running = TRUE
    /\ connected = FALSE
    /\ client = DefaultIp
    /\ current_mac = "Unknown"
    /\ tree = << >>
    /\ afterQ = << >>
    /\ fetches = EmptyBag
    /\ uploads = EmptyBag
    /\ deletes = EmptyBag
    /\ config \in InitialConfigs
    /\ status_label = IF config = << >> THEN <<"Disconnected">>
                      ELSE <<"Connecting...">>
    /\ hs = IF config = << >> THEN EmptyBag
            ELSE SetToBag({HandshakeThread(config[1].last_ip)})
    /\ ka = Keepalive("thread", "worker")
    /\ dot = [fill |-> Gray, after |-> EmptyBag]

(***************************************************************************)
(* Main loop: connection handlers.                                         *)
(***************************************************************************)
\* refresh_list(new_filenames), run by the main loop with self.connected
\* equal to conn: deletes the rows and starts the listing thread.  A
\* new_filenames of None is the empty sequence: populate_tree only tests
\* its truth.
refresh_list(conn, names, succeeded) ==
    IF ~conn \/ ~running
    THEN UNCHANGED <<tree, fetches>>
    ELSE /\ tree' = << >>
         /\ fetches' = Add(fetches, FetchThread(names, succeeded))

\* Ray5App.disconnect (the entry and the button text follow self.connected
\* and are not modelled)
disconnect ==
    /\ connected' = FALSE
    /\ status_label' = <<"Disconnected">>
    /\ tree' = << >>
    /\ hs' = BagOfAll(LAMBDA w : Stale(w, w.pc = "send"), hs)
    /\ fetches' = BagOfAll(LAMBDA w : Stale(w, TRUE), fetches)
    /\ uploads' = BagOfAll(LAMBDA w : Stale(w, TRUE), uploads)
    /\ deletes' = BagOfAll(LAMBDA w : Stale(w, TRUE), deletes)
    /\ afterQ' = [i \in 1..Len(afterQ) |-> Stale(afterQ[i], FALSE)]
    /\ ka' = IF ka.pc = "sent" THEN Stale(ka, TRUE) ELSE ka
    /\ dot' = [dot EXCEPT !.fill = Gray]
    /\ UNCHANGED <<running, client, current_mac, config>>

\* Ray5App.connect with ip the stripped text of the entry
connect(ip) ==
    IF ~is_valid_ip(ip)
    THEN /\ status_label' = <<"Invalid IP">>
         /\ UNCHANGED <<ka, dot, running, connected, client, current_mac, config, tree,
                        afterQ, hs, fetches, uploads, deletes>>
    ELSE /\ status_label' = <<"Connecting...">>
         /\ hs' = Add(hs, HandshakeThread(ip))
         /\ UNCHANGED <<ka, dot, running, connected, client, current_mac, config, tree,
                        afterQ, fetches, uploads, deletes>>

\* Ray5App.toggle_connect: the "Connect / Scan" / "Disconnect" button
toggle_connect(ip) ==
    /\ running
    /\ IF connected THEN disconnect ELSE connect(ip)

\* the "Refresh List" button
RefreshButton ==
    /\ running
    /\ connected
    /\ refresh_list(connected, << >>, << >>)
    /\ UNCHANGED <<ka, dot, running, connected, client, current_mac, status_label,
                   config, afterQ, hs, uploads, deletes>>

\* Ray5App.on_closing
on_closing ==
    /\ running
    /\ running' = FALSE
    /\ UNCHANGED <<ka, dot, connected, client, current_mac, status_label,
                   config, tree, afterQ, hs, fetches, uploads, deletes>>

(***************************************************************************)
(* connect.task, one thread per connect.                                   *)
(***************************************************************************)
\* info = client.send_command("[ESP420]"); if not self.running: return;
\* the "FW version" test and the regular expression
HsResponse(w, info) ==
    /\ w.pc = "send"
    /\ hs' = IF ~running THEN Del(hs, w)
             ELSE IF HasFirmwareMarker(info)
             THEN Replace(hs, w, [w EXCEPT !.pc = "client", !.info = info,
                                           !.mac = ParseMac(info)])
             ELSE Replace(hs, w, [w EXCEPT !.pc = "failpost"])
    /\ UNCHANGED <<ka, dot, running, connected, client, current_mac, status_label,
                   config, tree, afterQ, fetches, uploads, deletes>>

\* self.client = client
HsSetClient(w) ==
    /\ w.pc = "client"
    /\ client' = w.ip
    /\ hs' = Replace(hs, w, [w EXCEPT !.pc = "mac"])
    /\ UNCHANGED <<ka, dot, running, connected, current_mac, status_label, config,
                   tree, afterQ, fetches, uploads, deletes>>

\* self.current_mac = mac
HsSetMac(w) ==
    /\ w.pc = "mac"
    /\ current_mac' = w.mac
    /\ hs' = Replace(hs, w, [w EXCEPT !.pc = "save"])
    /\ UNCHANGED <<ka, dot, running, connected, client, status_label, config, tree,
                   afterQ, fetches, uploads, deletes>>

\* Ray5App.save_config(mac, ip): writes the pair, or logs the exception
save_config(mac, ip, ok) ==
    config' = IF ok THEN <<[last_mac |-> mac, last_ip |-> ip]>> ELSE config

\* self.save_config(mac, ip)
HsSave(w, ok) ==
    /\ w.pc = "save"
    /\ save_config(w.mac, w.ip, ok)
    /\ hs' = Replace(hs, w, [w EXCEPT !.pc = "post",
                                      !.saved = IF ok THEN "ok" ELSE "failed"])
    /\ UNCHANGED <<ka, dot, running, connected, client, current_mac, status_label,
                   tree, afterQ, fetches, uploads, deletes>>

\* if self.running: self.root.after(0, lambda: self.on_connected(ip, mac) ...)
HsPost(w) ==
    /\ w.pc = "post"
    /\ afterQ' = IF running
                 THEN Append(afterQ, [Callback("on_connected") EXCEPT
                          !.ip = w.ip, !.mac = w.mac, !.info = w.info,
                          !.saved = w.saved, !.stale = w.stale])
                 ELSE afterQ
    /\ hs' = Del(hs, w)
    /\ UNCHANGED <<ka, dot, running, connected, client, current_mac, status_label,
                   config, tree, fetches, uploads, deletes>>

\* if self.running: self.root.after(0, lambda: ...text="Connection Failed"...)
HsFailPost(w) ==
    /\ w.pc = "failpost"
    /\ afterQ' = IF running
                 THEN Append(afterQ, [Callback("connection_failed") EXCEPT
                          !.stale = w.stale])
                 ELSE afterQ
    /\ hs' = Del(hs, w)
    /\ UNCHANGED <<ka, dot, running, connected, client, current_mac, status_label,
                   config, tree, fetches, uploads, deletes>>

(***************************************************************************)
(* refresh_list.task, one thread per refresh.                              *)
(***************************************************************************)
\* self.client.get_files(): the request goes to the client of that moment
FetchSend(w) ==
    /\ w.pc = "start"
    /\ fetches' = Replace(fetches, w, [w EXCEPT !.pc = "wait", !.ip = client])
    /\ UNCHANGED <<ka, dot, running, connected, client, current_mac, status_label,
                   config, tree, afterQ, hs, uploads, deletes>>

\* files = ...get_files(); if not self.running: return;
\* self.root.after(0, lambda: self.populate_tree(files, new_filenames) ...)
FetchResponse(w, r) ==
    /\ w.pc = "wait"
    /\ afterQ' = IF running
                 THEN Append(afterQ, [Callback("populate_tree") EXCEPT
                          !.ip = w.ip, !.files = get_files(r),
                          !.names = w.names, !.failed = (r.code # 200),
                          !.before = w.before, !.marked = w.marked,
                          !.succeeded = w.succeeded, !.stale = w.stale])
                 ELSE afterQ
    /\ fetches' = Del(fetches, w)
    /\ UNCHANGED <<ka, dot, running, connected, client, current_mac, status_label,
                   config, tree, hs, uploads, deletes>>

(***************************************************************************)
(* Main loop: the root.after(0, ...) callbacks, in the order posted.  Each *)
(* lambda runs its body only if self.running.                              *)
(***************************************************************************)
HeadIs(kind) == afterQ # << >> /\ Head(afterQ).cb = kind

\* lambda: ... if self.running else None, once running is False
DropCallback ==
    /\ afterQ # << >>
    /\ ~running
    /\ afterQ' = Tail(afterQ)
    /\ UNCHANGED <<ka, dot, running, connected, client, current_mac, status_label,
                   config, tree, hs, fetches, uploads, deletes>>

\* Ray5App.on_connected(ip, mac), with update_status_text and refresh_list
on_connected ==
    /\ HeadIs("on_connected")
    /\ running
    /\ afterQ' = Tail(afterQ)
    /\ connected' = TRUE
    /\ status_label' = StatusConnected
    /\ refresh_list(TRUE, << >>, << >>)
    /\ UNCHANGED <<ka, dot, running, client, current_mac, config, hs, uploads,
                   deletes>>

\* lambda: self.status_label.config(text="Connection Failed")
connection_failed ==
    /\ HeadIs("connection_failed")
    /\ running
    /\ afterQ' = Tail(afterQ)
    /\ status_label' = <<"Connection Failed">>
    /\ UNCHANGED <<ka, dot, running, connected, client, current_mac, config, tree,
                   hs, fetches, uploads, deletes>>

\* Ray5App.update_status_text, posted by perform_upload.task
update_status_text ==
    /\ HeadIs("update_status_text")
    /\ running
    /\ afterQ' = Tail(afterQ)
    /\ status_label' = IF connected THEN StatusConnected ELSE <<"Disconnected">>
    /\ UNCHANGED <<ka, dot, running, connected, client, current_mac, config, tree,
                   hs, fetches, uploads, deletes>>

\* lambda: self.refresh_list(new_filenames=...), posted by a batch thread
refresh_callback ==
    /\ HeadIs("refresh_list")
    /\ running
    /\ afterQ' = Tail(afterQ)
    /\ refresh_list(connected, Head(afterQ).names, Head(afterQ).succeeded)
    /\ UNCHANGED <<ka, dot, running, connected, client, current_mac, status_label,
                   config, hs, uploads, deletes>>

(***************************************************************************)
(* Rows and their fade timers.  A row is [name, size, tags, timer, ticks]: *)
(* tags is 0 for tags=() and k for the tag fade_<id>_<k>; timer is the     *)
(* argument of the row's pending root.after(1000, fade_item) call, or -1   *)
(* when none is pending; ticks counts the timer calls the row has seen.    *)
(* Item ids are never reused and a timer whose row is gone returns at      *)
(* "not self.tree.exists(item_id)", so deleting a row drops its timer.     *)
(***************************************************************************)
NoTimer == 0 - 1

\* a mutant of fade_step that clears the tag one call early
fade_step_early(row, left) ==
    IF left <= 1
    THEN [row EXCEPT !.tags = 0, !.timer = NoTimer]
    ELSE [row EXCEPT !.tags = left, !.timer = left - 1]

\* fade_item(item_id, seconds_left) on an existing row, self.running true
fade_step(row, left) ==
    IF left <= 0
    THEN [row EXCEPT !.tags = 0, !.timer = NoTimer]
    ELSE [row EXCEPT !.tags = left, !.timer = left - 1]

\* populate_tree: new_filenames and name in new_filenames
IsNew(names, name) ==
    names # << >> /\ \E i \in 1..Len(names) : names[i] = name

\* the row populate_tree inserts for f: tags=("new_file",) and
\* fade_item(item_id, 15) when the name is new
NewRow(f, names) ==
    LET row == [name |-> f.name, size |-> f.size, tags |-> 0,
                timer |-> NoTimer, ticks |-> 0]
    IN IF IsNew(names, f.name) THEN fade_step(row, FadeSeconds) ELSE row

\* Ray5App.populate_tree(files, new_filenames)
populate_tree ==
    /\ HeadIs("populate_tree")
    /\ running
    /\ afterQ' = Tail(afterQ)
    /\ LET cb == Head(afterQ)
       IN tree' = tree \o [i \in 1..Len(cb.files) |-> NewRow(cb.files[i], cb.names)]
    /\ UNCHANGED <<ka, dot, running, connected, client, current_mac, status_label,
                   config, hs, fetches, uploads, deletes>>

\* the root.after(1000, ...) timer of row i firing:
\* lambda: self.fade_item(item_id, seconds_left - 1) if self.running else None
fade_item(i) ==
    /\ i \in 1..Len(tree)
    /\ tree[i].timer # NoTimer
    /\ tree' = [tree EXCEPT ![i] =
                  IF ~running THEN [@ EXCEPT !.timer = NoTimer]
                  ELSE [fade_step(@, @.timer) EXCEPT !.ticks = @ + 1]]
    /\ UNCHANGED <<ka, dot, running, connected, client, current_mac, status_label,
                   config, afterQ, hs, fetches, uploads, deletes>>

(***************************************************************************)
(* Upload and delete batches.                                              *)
(***************************************************************************)
\* Ray5App.perform_upload(paths): the status text and the thread
perform_upload(paths) ==
    /\ status_label' = <<"Uploading", Len(paths)>>
    /\ uploads' = Add(uploads, [paths |-> paths, uploaded_names |-> << >>,
                                succeeded |-> << >>, stale |-> "no"])
    /\ UNCHANGED <<ka, dot, running, connected, client, current_mac, config, tree,
                   afterQ, hs, fetches, deletes>>

\* Ray5App.upload: the "Upload File(s)" button and its file dialog
upload(paths) ==
    /\ running
    /\ connected
    /\ perform_upload(paths)

\* Ray5App.handle_drop with the paths parsed from event.data
handle_drop(paths) ==
    /\ running
    /\ connected
    /\ perform_upload(paths)

\* one pass of the loop of perform_upload.task over an existing file:
\* res = self.client.upload_file(path); "successful" in res.lower().
\* "succeeded" records the names the device answered 200 for.
AttemptUpload(w, code) ==
    LET path == Head(w.paths)
        res == upload_file(path, code)
    IN [w EXCEPT !.paths = Tail(@),
                 !.uploaded_names = IF Contains(res, "successful")
                                    THEN Append(@, basename(path)) ELSE @,
                 !.succeeded = IF path.kind = "file" /\ code = 200
                               THEN Append(@, basename(path)) ELSE @]

\* one pass of "for path in paths": the running test, os.path.isdir, and
\* upload_file, whose os.path.getsize raises outside its try for a path that
\* does not exist, which ends the thread
UploadItem(w, code) ==
    /\ w.paths # << >>
    /\ uploads' =
          IF ~running THEN Del(uploads, w)
          ELSE IF Head(w.paths).kind = "dir"
          THEN Replace(uploads, w, [w EXCEPT !.paths = Tail(@)])
          ELSE IF Head(w.paths).kind = "missing" THEN Del(uploads, w)
          ELSE Replace(uploads, w, AttemptUpload(w, code))
    /\ UNCHANGED <<ka, dot, running, connected, client, current_mac, status_label,
                   config, tree, afterQ, hs, fetches, deletes>>

\* after the loop: if self.running: the two root.after(0, ...) calls
UploadFinish(w) ==
    /\ w.paths = << >>
    /\ afterQ' = IF running
                 THEN afterQ \o
                      << [Callback("update_status_text") EXCEPT
                             !.stale = w.stale],
                         [Callback("refresh_list") EXCEPT
                             !.names = w.uploaded_names,
                             !.succeeded = w.succeeded, !.stale = w.stale] >>
                 ELSE afterQ
    /\ uploads' = Del(uploads, w)
    /\ UNCHANGED <<ka, dot, running, connected, client, current_mac, status_label,
                   config, tree, hs, fetches, deletes>>

\* the selections of the rows: one to max row positions
Selections(max) ==
    { sel \in SUBSET (1..Len(tree)) : Cardinality(sel) \in 1..max }

\* the names of the selected rows, in row order
SelectedNames(sel) ==
    LET pos[k \in 0..Len(tree)] ==
            IF k = 0 THEN << >>
            ELSE IF k \in sel THEN Append(pos[k - 1], tree[k].name)
            ELSE pos[k - 1]
    IN pos[Len(tree)]

\* Ray5App.delete: the "Delete Selected" button with rows selected and the
\* confirmation dialog answered Yes
delete(sel) ==
    /\ running
    /\ connected
    /\ deletes' = Add(deletes, [filenames |-> SelectedNames(sel),
                                stale |-> "no"])
    /\ UNCHANGED <<ka, dot, running, connected, client, current_mac, status_label,
                   config, tree, afterQ, hs, fetches, uploads>>

\* answers to the delete command: 200, another status, an exception (0)
DeleteCodes == {200, 500, 0}

\* one pass of "for filename in filenames" of delete.task: the running
\* test and self.client.delete_file(filename), whose message is only logged
DeleteItem(w, code) ==
    /\ w.filenames # << >>
    /\ deletes' = IF ~running THEN Del(deletes, w)
                  ELSE Replace(deletes, w, [w EXCEPT !.filenames = Tail(@)])
    /\ UNCHANGED <<ka, dot, running, connected, client, current_mac, status_label,
                   config, tree, afterQ, hs, fetches, uploads>>

\* after the loop: if self.running: root.after(0, lambda: self.refresh_list())
DeleteFinish(w) ==
    /\ w.filenames = << >>
    /\ afterQ' = IF running
                 THEN Append(afterQ, [Callback("refresh_list") EXCEPT
                          !.stale = w.stale])
                 ELSE afterQ
    /\ deletes' = Del(deletes, w)
    /\ UNCHANGED <<ka, dot, running, connected, client, current_mac, status_label,
                   config, tree, hs, fetches, uploads>>

(***************************************************************************)
(* Keepalive.  start_keepalive runs check() once on its own thread; check  *)
(* re-arms itself with root.after(2000, check), so every later check runs  *)
(* in the main loop, which waits in send_command until the device answers  *)
(* or the request times out.                                               *)
(***************************************************************************)
\* what send_command("[ESP400]") may return, as lower-cased words: a body
\* of the device, a body of the device naming an error, or the
\* "Command error: {e}" of send_command when requests raised
KeepaliveResponses ==
    { <<"ok">>, <<"error", "busy">>, <<"command", "error", "timed", "out">> }

\* a mutant of KeepaliveAlive that takes every body for a sign of life
KeepaliveAliveAlways(res) == res = res

\* "error" not in res.lower()
KeepaliveAlive(res) == ~Contains(res, "error")

\* the main loop is inside a handler that waits for the device
MainBusy == ka.pc = "sent" /\ ka.ctx = "main"

\* check() up to send_command, run in context ctx
check(ctx) ==
    ka' = IF ~running THEN Keepalive("off", ctx)
          ELSE IF connected
          THEN [Keepalive("sent", ctx) EXCEPT !.ip = client]
          ELSE Keepalive("timer", ctx)

\* threading.Thread(target=check, daemon=True).start(): the first check
KaThread ==
    /\ ka.pc = "thread"
    /\ check("worker")
    /\ UNCHANGED <<dot, running, connected, client, current_mac, status_label,
                   config, tree, afterQ, hs, fetches, uploads, deletes>>

\* the root.after(2000, check) timer firing in the main loop
KaTimer ==
    /\ ka.pc = "timer"
    /\ check("main")
    /\ UNCHANGED <<dot, running, connected, client, current_mac, status_label,
                   config, tree, afterQ, hs, fetches, uploads, deletes>>

\* check() from the return of send_command: if not self.running: return;
\* the flash_dot callback; if self.running: self.root.after(2000, check)
KaResponse(res) ==
    /\ ka.pc = "sent"
    /\ ka' = IF ~running THEN Keepalive("off", ka.ctx)
             ELSE [Keepalive("timer", ka.ctx) EXCEPT !.res = res]
    /\ afterQ' = IF running /\ KeepaliveAlive(res)
                 THEN Append(afterQ, [Callback("flash_dot") EXCEPT
                          !.ip = ka.ip, !.stale = ka.stale])
                 ELSE afterQ
    /\ UNCHANGED <<dot, running, connected, client, current_mac, status_label,
                   config, tree, hs, fetches, uploads, deletes>>

\* the green of fade_dot(step): int(68 + (255 - 68) * (step / 10))
FadeGreen(step) == 68 + (187 * step) \div 10

\* Ray5App.fade_dot(step), self.running true
fade_dot(d, step) ==
    IF step <= 0
    THEN [d EXCEPT !.fill = Green(68)]
    ELSE [fill |-> Green(FadeGreen(step)),
          after |-> d.after (+) SetToBag({step - 1})]

\* lambda: self.flash_dot() if self.running else None
flash_dot ==
    /\ HeadIs("flash_dot")
    /\ running
    /\ afterQ' = Tail(afterQ)
    /\ dot' = fade_dot([dot EXCEPT !.fill = Green(255)], 10)
    /\ UNCHANGED <<ka, running, connected, client, current_mac, status_label,
                   config, tree, hs, fetches, uploads, deletes>>

\* the root.after(50, ...) timer with argument step firing:
\* lambda: self.fade_dot(step - 1) if self.running else None
FadeDotTimer(step) ==
    /\ BagIn(step, dot.after)
    /\ LET rest == [dot EXCEPT !.after = @ (-) SetToBag({step})]
       IN dot' = IF running THEN fade_dot(rest, step) ELSE rest
    /\ UNCHANGED <<ka, running, connected, client, current_mac, status_label,
                   config, tree, afterQ, hs, fetches, uploads, deletes>>

(***************************************************************************)
(* The program: every handler, callback, timer and thread step, with no    *)
(* bound.  The specifications below take their steps from it.              *)
(***************************************************************************)
Next ==
    \/ ~MainBusy /\ \E ip \in TypedAddresses : toggle_connect(ip)
    \/ ~MainBusy /\ RefreshButton
    \/ ~MainBusy /\ \E paths \in Batches(LocalPaths, Cardinality(LocalPaths)) : upload(paths)
    \/ ~MainBusy /\ \E paths \in Batches(LocalPaths, Cardinality(LocalPaths)) : handle_drop(paths)
    \/ ~MainBusy /\ \E sel \in Selections(Len(tree)) : delete(sel)
    \/ ~MainBusy /\ on_closing
    \/ ~MainBusy /\ DropCallback
    \/ ~MainBusy /\ on_connected
    \/ ~MainBusy /\ connection_failed
    \/ ~MainBusy /\ update_status_text
    \/ ~MainBusy /\ refresh_callback
    \/ ~MainBusy /\ populate_tree
    \/ ~MainBusy /\ flash_dot
    \/ ~MainBusy /\ \E i \in 1..Len(tree) : fade_item(i)
    \/ ~MainBusy /\ \E step \in BagToSet(dot.after) : FadeDotTimer(step)
    \/ KaThread
    \/ KaTimer
    \/ \E res \in KeepaliveResponses : KaResponse(res)
    \/ \E w \in Threads(hs) : \E info \in IdentityResponses(w.ip) : HsResponse(w, info)
    \/ \E w \in Threads(hs) : HsSetClient(w)
    \/ \E w \in Threads(hs) : HsSetMac(w)
    \/ \E w \in Threads(hs) : \E ok \in BOOLEAN : HsSave(w, ok)
    \/ \E w \in Threads(hs) : HsPost(w)
    \/ \E w \in Threads(hs) : HsFailPost(w)
    \/ \E w \in Threads(fetches) : FetchSend(w)
    \/ \E w \in Threads(fetches) :
          \E r \in FilesResponses(Cardinality(DeviceNames)) : FetchResponse(w, r)
    \/ \E w \in Threads(uploads) : \E code \in PostCodes : UploadItem(w, code)
    \/ \E w \in Threads(uploads) : UploadFinish(w)
    \/ \E w \in Threads(deletes) : \E code \in DeleteCodes : DeleteItem(w, code)
    \/ \E w \in Threads(deletes) : DeleteFinish(w)

Spec == Init /\ [][Next]_vars

(***************************************************************************)
(* SpecConnect: the user types addresses and presses the connect button,   *)
(* also while a handshake is in flight; the device lists no files.         *)
(***************************************************************************)
ConnectAddresses == {DefaultIp, EmptyIp, BadOctetIp, HostNameIp}

ConnectBounds ==
    Count(hs) + Count(fetches) + Len(afterQ) <= ConnectInFlight

NextConnect ==
    \/ (\E ip \in ConnectAddresses : toggle_connect(ip)) /\ ConnectBounds'
    \/ on_closing
    \/ DropCallback
    \/ on_connected
    \/ connection_failed
    \/ populate_tree
    \/ \E w \in Threads(hs) : \E info \in IdentityResponses(w.ip) : HsResponse(w, info)
    \/ \E w \in Threads(hs) : HsSetClient(w)
    \/ \E w \in Threads(hs) : HsSetMac(w)
    \/ \E w \in Threads(hs) : \E ok \in BOOLEAN : HsSave(w, ok)
    \/ \E w \in Threads(hs) : HsPost(w)
    \/ \E w \in Threads(hs) : HsFailPost(w)
    \/ \E w \in Threads(fetches) : FetchSend(w)
    \/ \E w \in Threads(fetches) : \E r \in FilesResponses(0) : FetchResponse(w, r)

SpecConnect == Init /\ [][NextConnect]_vars

(***************************************************************************)
(* SpecRefresh: one Ray5 at the default address, config.json writable; the *)
(* user refreshes the list and disconnects while listings are in flight.   *)
(***************************************************************************)
Ray5Response(ip) == <<Txt("FW version"), Sta(MacOf(ip))>>

\* the device holds a.nc or nothing
RefreshResponses ==
    { r \in FilesResponses(RefreshList) :
        \A i \in 1..Len(r.files) : r.files[i].name = "a.nc" }

RefreshBounds ==
    /\ Count(hs) <= RefreshHandshakes
    /\ Count(fetches) <= RefreshFetches
    /\ Len(afterQ) <= RefreshQueue

NextRefresh ==
    \/ toggle_connect(DefaultIp) /\ RefreshBounds'
    \/ RefreshButton /\ RefreshBounds'
    \/ on_closing
    \/ DropCallback
    \/ on_connected /\ RefreshBounds'
    \/ populate_tree
    \/ \E w \in Threads(hs) : HsResponse(w, Ray5Response(w.ip))
    \/ \E w \in Threads(hs) : HsSetClient(w)
    \/ \E w \in Threads(hs) : HsSetMac(w)
    \/ \E w \in Threads(hs) : HsSave(w, TRUE)
    \/ (\E w \in Threads(hs) : HsPost(w)) /\ RefreshBounds'
    \/ \E w \in Threads(fetches) : FetchSend(w)
    \/ (\E w \in Threads(fetches) : \E r \in RefreshResponses : FetchResponse(w, r))
          /\ RefreshBounds'

SpecRefresh == Init /\ [][NextRefresh]_vars

(***************************************************************************)
(* SpecPair: a Ray5 at each of two addresses, config.json writable; the    *)
(* user changes the address and connects again while a handshake is in     *)
(* flight.                                                                 *)
(***************************************************************************)
PairAddresses == {DefaultIp, OtherIp}

PairBounds ==
    Count(hs) + Count(fetches) + Len(afterQ) <= PairInFlight

NextPair ==
    \/ (\E ip \in PairAddresses : toggle_connect(ip)) /\ PairBounds'
    \/ on_closing
    \/ DropCallback
    \/ on_connected /\ PairBounds'
    \/ populate_tree
    \/ \E w \in Threads(hs) : HsResponse(w, Ray5Response(w.ip))
    \/ \E w \in Threads(hs) : HsSetClient(w)
    \/ \E w \in Threads(hs) : HsSetMac(w)
    \/ \E w \in Threads(hs) : HsSave(w, TRUE)
    \/ \E w \in Threads(hs) : HsPost(w)
    \/ \E w \in Threads(fetches) : FetchSend(w)
    \/ \E w \in Threads(fetches) : \E r \in FilesResponses(0) : FetchResponse(w, r)

SpecPair == Init /\ [][NextPair]_vars

(***************************************************************************)
(* SpecCatalog: one Ray5 at the default address, config.json writable, the *)
(* device listing its files by name; the user uploads, deletes, refreshes  *)
(* and disconnects, starting an operation only when the previous one is    *)
(* over, while the fade timers run.                                        *)
(***************************************************************************)
Quiet ==
    /\ hs = EmptyBag
    /\ fetches = EmptyBag
    /\ uploads = EmptyBag
    /\ deletes = EmptyBag
    /\ afterQ = << >>

CatalogResponses ==
    { r \in FilesResponses(CatalogList) : Sorted(r.files) }

NextCatalog ==
    \/ Quiet /\ toggle_connect(DefaultIp)
    \/ Quiet /\ RefreshButton
    \/ Quiet /\ \E paths \in Batches(LocalPaths, CatalogPaths) : upload(paths)
    \/ Quiet /\ \E paths \in Batches(LocalPaths, CatalogPaths) : handle_drop(paths)
    \/ Quiet /\ \E sel \in Selections(CatalogPaths) : delete(sel)
    \/ on_closing
    \/ DropCallback
    \/ on_connected
    \/ update_status_text
    \/ refresh_callback
    \/ populate_tree
    \/ \E i \in 1..Len(tree) : fade_item(i)
    \/ \E w \in Threads(hs) : HsResponse(w, Ray5Response(w.ip))
    \/ \E w \in Threads(hs) : HsSetClient(w)
    \/ \E w \in Threads(hs) : HsSetMac(w)
    \/ \E w \in Threads(hs) : HsSave(w, TRUE)
    \/ \E w \in Threads(hs) : HsPost(w)
    \/ \E w \in Threads(fetches) : FetchSend(w)
    \/ \E w \in Threads(fetches) : \E r \in CatalogResponses : FetchResponse(w, r)
    \/ \E w \in Threads(uploads) : \E code \in PostCodes : UploadItem(w, code)
    \/ \E w \in Threads(uploads) : UploadFinish(w)
    \/ \E w \in Threads(deletes) : \E code \in DeleteCodes : DeleteItem(w, code)
    \/ \E w \in Threads(deletes) : DeleteFinish(w)

SpecCatalog == Init /\ [][NextCatalog]_vars

(***************************************************************************)
(* SpecFade: as SpecCatalog, the user uploading readable files only and    *)
(* deleting nothing.                                                       *)
(***************************************************************************)
ReadablePaths == { p \in LocalPaths : p.kind = "file" }

FadeResponses ==
    { r \in FilesResponses(FadeList) : Sorted(r.files) }

NextFade ==
    \/ Quiet /\ toggle_connect(DefaultIp)
    \/ Quiet /\ RefreshButton
    \/ Quiet /\ \E paths \in Batches(ReadablePaths, FadePaths) : upload(paths)
    \/ on_closing
    \/ DropCallback
    \/ on_connected
    \/ update_status_text
    \/ refresh_callback
    \/ populate_tree
    \/ \E i \in 1..Len(tree) : fade_item(i)
    \/ \E w \in Threads(hs) : HsResponse(w, Ray5Response(w.ip))
    \/ \E w \in Threads(hs) : HsSetClient(w)
    \/ \E w \in Threads(hs) : HsSetMac(w)
    \/ \E w \in Threads(hs) : HsSave(w, TRUE)
    \/ \E w \in Threads(hs) : HsPost(w)
    \/ \E w \in Threads(fetches) : FetchSend(w)
    \/ \E w \in Threads(fetches) : \E r \in FadeResponses : FetchResponse(w, r)
    \/ \E w \in Threads(uploads) : \E code \in PostCodes : UploadItem(w, code)
    \/ \E w \in Threads(uploads) : UploadFinish(w)

SpecFade == Init /\ [][NextFade]_vars

(***************************************************************************)
(* SpecKeepalive: as SpecFade with one file, the keepalive loop and the    *)
(* dot; the main loop runs nothing while check() waits for the device in   *)
(* it.                                                                     *)
(***************************************************************************)
\* the device holds a.nc or nothing
KeepaliveListings ==
    { r \in FilesResponses(Cardinality(DeviceNames)) :
        r.files \in {<< >>, <<RemoteFile("a.nc")>>} }

\* the file the user uploads
KeepalivePaths == { p \in ReadablePaths : p.name = "a.nc" }

KeepaliveBounds ==
    Len(afterQ) + Count(dot.after) <= KeepaliveInFlight

NextKeepalive ==
    \/ ~MainBusy /\ Quiet /\ toggle_connect(DefaultIp)
    \/ ~MainBusy /\ Quiet
          /\ \E path \in KeepalivePaths : upload(<<path>>)
    \/ ~MainBusy /\ on_closing
    \/ ~MainBusy /\ DropCallback
    \/ ~MainBusy /\ on_connected
    \/ ~MainBusy /\ update_status_text
    \/ ~MainBusy /\ refresh_callback
    \/ ~MainBusy /\ populate_tree
    \/ ~MainBusy /\ flash_dot /\ KeepaliveBounds'
    \/ ~MainBusy /\ \E i \in 1..Len(tree) : fade_item(i)
    \/ ~MainBusy /\ \E step \in BagToSet(dot.after) : FadeDotTimer(step)
    \/ KaThread
    \/ KaTimer
    \/ (\E res \in KeepaliveResponses : KaResponse(res)) /\ KeepaliveBounds'
    \/ \E w \in Threads(hs) : HsResponse(w, Ray5Response(w.ip))
    \/ \E w \in Threads(hs) : HsSetClient(w)
    \/ \E w \in Threads(hs) : HsSetMac(w)
    \/ \E w \in Threads(hs) : HsSave(w, TRUE)
    \/ (\E w \in Threads(hs) : HsPost(w)) /\ KeepaliveBounds'
    \/ \E w \in Threads(fetches) : FetchSend(w)
    \/ (\E w \in Threads(fetches) : \E r \in KeepaliveListings : FetchResponse(w, r))
          /\ KeepaliveBounds'
    \/ \E w \in Threads(uploads) : \E code \in PostCodes : UploadItem(w, code)
    \/ (\E w \in Threads(uploads) : UploadFinish(w)) /\ KeepaliveBounds'

SpecKeepalive == Init /\ [][NextKeepalive]_vars

(***************************************************************************)
(* SpecBatch: one Ray5 at the default address holding a.nc, config.json    *)
(* writable; the user uploads a.nc, deletes rows, connects and disconnects *)
(* without waiting for the operations in flight.                           *)
(***************************************************************************)
BatchBounds ==
    Count(hs) + Count(fetches) + Count(uploads) + Count(deletes)
       + Len(afterQ) <= BatchInFlight

NextBatch ==
    \/ toggle_connect(DefaultIp) /\ BatchBounds'
    \/ (\E path \in KeepalivePaths : upload(<<path>>)) /\ BatchBounds'
    \/ (\E path \in KeepalivePaths : handle_drop(<<path>>)) /\ BatchBounds'
    \/ (\E sel \in Selections(Len(tree)) : delete(sel)) /\ BatchBounds'
    \/ on_closing
    \/ DropCallback
    \/ on_connected
    \/ update_status_text
    \/ refresh_callback
    \/ populate_tree
    \/ \E w \in Threads(hs) : HsResponse(w, Ray5Response(w.ip))
    \/ \E w \in Threads(hs) : HsSetClient(w)
    \/ \E w \in Threads(hs) : HsSetMac(w)
    \/ \E w \in Threads(hs) : HsSave(w, TRUE)
    \/ \E w \in Threads(hs) : HsPost(w)
    \/ \E w \in Threads(fetches) : FetchSend(w)
    \/ \E w \in Threads(fetches) : \E r \in KeepaliveListings : FetchResponse(w, r)
    \/ \E w \in Threads(uploads) : \E code \in PostCodes : UploadItem(w, code)
    \/ (\E w \in Threads(uploads) : UploadFinish(w)) /\ BatchBounds'
    \/ \E w \in Threads(deletes) : \E code \in DeleteCodes : DeleteItem(w, code)
    \/ \E w \in Threads(deletes) : DeleteFinish(w)

SpecBatch == Init /\ [][NextBatch]_vars

(***************************************************************************)
(* Properties.  Steps of the main loop and of the threads are recognised   *)
(* by what they consume: the callback at the head of afterQ, or a thread   *)
(* record leaving its bag.                                                 *)
(***************************************************************************)
Range(seq) == {seq[i] : i \in 1..Len(seq)}

\* the main loop runs the callback at the head of afterQ
Runs(kind) == HeadIs(kind) /\ running /\ afterQ' = Tail(afterQ)

\* thread w of bag B takes a step
Steps(w, B, Bnext) == CopiesIn(w, Bnext) < CopiesIn(w, B)

\* the body holds the text "FW version"
Marked(info) == \E i \in 1..Len(info) : info[i] = Txt("FW version")

\* the typed addresses socket.inet_aton rejects
InvalidTyped == {EmptyIp, BadOctetIp, HostNameIp}

\* C1: a handshake whose response was still awaited when disconnect ran is
\* discarded: its thread writes neither the client, the identity nor the
\* configuration, and its callback changes neither the connection flag nor
\* the status text and starts no listing.
C1_HandshakeDiscardedAfterDisconnect ==
    [][ /\ (Runs("on_connected") /\ Head(afterQ).stale = "unresolved")
             => UNCHANGED <<connected, status_label, fetches>>
        /\ (Runs("connection_failed") /\ Head(afterQ).stale = "unresolved")
             => UNCHANGED status_label
        /\ \A w \in Threads(hs) :
             (w.stale = "unresolved" /\ Steps(w, hs, hs'))
                => UNCHANGED <<client, current_mac, config>> ]_vars

\* C2: between a disconnect and the next successful connect (and before the
\* first connect) the catalog is empty, whatever listing was in flight.
C2_CatalogEmptyWhileDisconnected == ~connected => tree = << >>

\* C3: when the listing of a refresh fails, with no disconnect in between,
\* the catalog after the refresh holds the names it held when the refresh
\* was requested.
C3_FailedFetchKeepsCatalog ==
    [][ (Runs("populate_tree") /\ Head(afterQ).failed
            /\ Head(afterQ).stale = "no")
          => NamesOf(tree') = Head(afterQ).before ]_vars

\* C4: a file that carried a marker when a refresh was requested and is in
\* the new listing carries a marker when the refresh has been applied.
C4_RefreshKeepsMarkers ==
    [][ (Runs("populate_tree") /\ Head(afterQ).stale = "no")
          => \A name \in Head(afterQ).marked :
                name \in Range(NamesOf(Head(afterQ).files))
                   => name \in MarkedNames(tree') ]_vars

\* C5: every row counts its own ticks: a marker holds FadeSeconds minus the
\* ticks its row has seen, is present after each of the first
\* FadeSeconds - 1 ticks and is gone, with no timer left, at tick
\* FadeSeconds; while the program runs a marked row has its next tick
\* pending.
C5_MarkerLastsFadeSeconds ==
    \A i \in 1..Len(tree) :
       LET row == tree[i]
       IN /\ row.ticks \in 0..FadeSeconds
          /\ row.tags \in 0..FadeSeconds
          /\ row.tags > 0 => row.tags = FadeSeconds - row.ticks
          /\ row.ticks \in 1..(FadeSeconds - 1) => row.tags > 0
          /\ row.ticks = FadeSeconds => row.tags = 0 /\ row.timer = NoTimer
          /\ (running /\ row.tags > 0) => row.timer = row.tags - 1

\* C5 witness: one row has lost its marker at tick FadeSeconds while
\* another, ticked once, still carries its marker.
C5_Witness ==
    \E i, j \in 1..Len(tree) :
       /\ tree[i].ticks = FadeSeconds
       /\ tree[i].tags = 0
       /\ tree[j].ticks = 1
       /\ tree[j].tags = FadeSeconds - 1

\* C6: while the program runs, a batch thread that has items left and
\* takes a step goes on with the items after the one it handled.
C6_ItemFailureKeepsBatch ==
    [][ running =>
          /\ \A w \in Threads(uploads) :
                (w.paths # << >> /\ Steps(w, uploads, uploads'))
                   => \E v \in Threads(uploads') : v.paths = Tail(w.paths)
          /\ \A w \in Threads(deletes) :
                (w.filenames # << >> /\ Steps(w, deletes, deletes'))
                   => \E v \in Threads(deletes') :
                         v.filenames = Tail(w.filenames) ]_vars

\* C7: the rows a refresh inserts with a marker are exactly those named
\* after a file the device accepted in the upload batch behind the refresh.
C7_MarkersOnUploadedOnly ==
    [][ (Runs("populate_tree") /\ Head(afterQ).stale = "no")
          => \A i \in (Len(tree) + 1)..Len(tree') :
                tree'[i].tags > 0
                   <=> tree'[i].name \in Range(Head(afterQ).succeeded) ]_vars

\* C8 as stated: when the connection flag rises the identity is the address
\* of an STA group of the response and config.json holds the pair.
C8_PairPersistedBeforeConnected ==
    [][ (~connected /\ connected')
          => /\ HeadIs("on_connected")
             /\ Marked(Head(afterQ).info)
             /\ \E i \in 1..Len(Head(afterQ).info) :
                   /\ Head(afterQ).info[i].k = "sta"
                   /\ current_mac = Head(afterQ).info[i].v
             /\ config = <<[last_mac |-> current_mac, last_ip |-> client]>> ]_vars

\* C8 amended: the connection flag rises only in the on_connected callback
\* of a handshake whose response holds "FW version" and whose thread called
\* save_config before posting the callback; the identity is written only by
\* such a thread, as the first "STA (...)" group of upper-case hexadecimal
\* digits and colons or "Unknown"; config.json changes only to the pair of
\* such a thread.
C8_MarkerGatesConnected ==
    /\ [][ (~connected /\ connected')
             => /\ Runs("on_connected")
                /\ Marked(Head(afterQ).info)
                /\ Head(afterQ).mac = ParseMac(Head(afterQ).info)
                /\ Head(afterQ).saved # "none" ]_vars
    /\ [][ current_mac' # current_mac
             => \E w \in Threads(hs) :
                   /\ Steps(w, hs, hs')
                   /\ Marked(w.info)
                   /\ current_mac' = ParseMac(w.info) ]_vars
    /\ [][ config' # config
             => \E w \in Threads(hs) :
                   /\ Steps(w, hs, hs')
                   /\ Marked(w.info)
                   /\ w.saved = "none"
                   /\ config' = <<[last_mac |-> ParseMac(w.info),
                                   last_ip |-> w.ip]>> ]_vars

\* C8 witness: connected to the device at the default address, its identity
\* recorded and saved.
C8_Witness ==
    /\ connected
    /\ client = DefaultIp
    /\ current_mac = MacOf(DefaultIp)
    /\ status_label = StatusConnected
    /\ config = <<[last_mac |-> MacOf(DefaultIp), last_ip |-> DefaultIp]>>

\* C9: no handshake thread, on_connected callback or client ever holds an address that
\* inet_aton rejects, and the step that shows "Invalid IP" changes nothing
\* but the status text.
C9_InvalidAddressRejected ==
    /\ [](\A w \in Threads(hs) : w.ip \notin InvalidTyped)
    /\ [](\A i \in 1..Len(afterQ) :
             afterQ[i].cb = "on_connected" => afterQ[i].ip \notin InvalidTyped)
    /\ [](client \notin InvalidTyped)
    /\ [][ (status_label' = <<"Invalid IP">> /\ status_label # <<"Invalid IP">>)
             => UNCHANGED <<ka, dot, running, connected, client, current_mac, config,
                            tree, afterQ, hs, fetches, uploads, deletes>> ]_vars

\* C9 witness: an invalid address was rejected after a session: the status
\* shows "Invalid IP", nothing is in flight, and the identity of the
\* earlier session is still recorded.
C9_Witness ==
    /\ status_label = <<"Invalid IP">>
    /\ ~connected
    /\ hs = EmptyBag
    /\ afterQ = << >>
    /\ current_mac = MacOf(DefaultIp)

\* C10: at most one listing thread exists at any time.
C10_OneRefreshInFlight == Count(fetches) <= 1

\* C11: at most one upload batch thread and at most one delete batch
\* thread exist at any time.
C11_OneBatchPerKind == Count(uploads) <= 1 /\ Count(deletes) <= 1

\* C12: while the program runs, a request goes to the device only when the
\* connection flag is set: the POST of an upload item, the delete command
\* of a delete item, the GET of a listing and the keepalive command.
C12_RequestsOnlyWhileConnected ==
    [][ running =>
          /\ \A w \in Threads(uploads) :
                (Steps(w, uploads, uploads') /\ w.paths # << >>
                    /\ Head(w.paths).kind = "file") => connected
          /\ \A w \in Threads(deletes) :
                (Steps(w, deletes, deletes') /\ w.filenames # << >>)
                   => connected
          /\ \A w \in Threads(fetches) :
                (Steps(w, fetches, fetches') /\ w.pc = "start") => connected
          /\ (ka.pc # "sent" /\ ka'.pc = "sent") => connected ]_vars

\* C13: a keepalive check whose response holds "error" leaves the
\* connection flag, the status text, the catalog, the callback queue and
\* the dot as they are and arms the next check; the connection flag never
\* falls in a step of the keepalive loop.
C13_MissedHeartbeatChangesNothing ==
    /\ [][ (running /\ ka.pc = "sent" /\ ka'.pc # "sent"
               /\ Contains(ka'.res, "error"))
             => /\ UNCHANGED <<connected, status_label, tree, afterQ, dot>>
                /\ ka'.pc = "timer" ]_vars
    /\ [][ (connected /\ ~connected')
             => (ka'.pc = ka.pc /\ ka'.res = ka.res) ]_vars

\* C13 witness: the session is connected after a check of the main loop
\* got an error response, and the next check is armed.
C13_Witness ==
    /\ connected
    /\ ka.pc = "timer"
    /\ ka.ctx = "main"
    /\ Contains(ka.res, "error")

\* C17: the keepalive command is never awaited in the main loop.
C17_KeepaliveOffMainLoop == ka.pc = "sent" => ka.ctx = "worker"

\* C14: in a connected session, a callback posted by a thread that was
\* started before the last disconnect changes neither the connection flag,
\* the status text, the catalog nor the dot and starts no listing, and a
\* batch thread started before the last disconnect handles no item.
C14_OldSessionResultsDropped ==
    [][ (running /\ connected) =>
          /\ (afterQ # << >> /\ Head(afterQ).stale # "no"
                 /\ afterQ' = Tail(afterQ))
                => UNCHANGED <<connected, status_label, tree, fetches, dot>>
          /\ \A w \in Threads(uploads) :
                (w.stale # "no" /\ w.paths # << >>)
                   => ~Steps(w, uploads, uploads')
          /\ \A w \in Threads(deletes) :
                (w.stale # "no" /\ w.filenames # << >>)
                   => ~Steps(w, deletes, deletes') ]_vars

\* the threads of a bag without their history of disconnects
Positions(B) == BagOfAll(LAMBDA w : [w EXCEPT !.stale = "no"], B)

\* a thread of bag B took a step (a thread that is only started did not)
Progressed(B, Bnext) ==
    \E w \in BagToSet(Positions(B)) :
       CopiesIn(w, Positions(Bnext)) < CopiesIn(w, Positions(B))

\* C15: the client, the identity, the connection flag and the catalog
\* change only in steps of the main loop: never in the step of a thread.
C15_StateWrittenByMainLoop ==
    [][ (client' # client \/ current_mac' # current_mac
            \/ connected' # connected \/ tree' # tree)
          => /\ ~Progressed(hs, hs')
             /\ ~Progressed(fetches, fetches')
             /\ ~Progressed(uploads, uploads')
             /\ ~Progressed(deletes, deletes')
             /\ (ka.ctx = "worker" => ka'.pc = ka.pc) ]_vars

C18_NoDuplicateNames == NoRepeat(NamesOf(tree))

\* C19: while the connection flag is set, the recorded identity is the
\* identity the device at the client's address reports.
C19_IdentityOfClientAddress ==
    connected => current_mac = MacOf(client)

\* the change markers of the rows
TagsOf(rows) == [i \in 1..Len(rows) |-> rows[i].tags]

\* a step that leaves the connection flag, the catalog, the change markers
\* and the heartbeat indicator as they are, takes no batch to a further
\* item and schedules no callback, keepalive tick or decay tick
ShutdownKeeps ==
    /\ UNCHANGED connected
    /\ NamesOf(tree') = NamesOf(tree)
    /\ TagsOf(tree') = TagsOf(tree)
    /\ dot'.fill = dot.fill
    /\ BagToSet(uploads') \subseteq BagToSet(uploads)
    /\ BagToSet(deletes') \subseteq BagToSet(deletes)
    /\ Len(afterQ') <= Len(afterQ)
    /\ Count(dot'.after) <= Count(dot.after)
    /\ ka'.pc \in {ka.pc, "off"}
    /\ \A i \in 1..Len(tree) : tree'[i].timer \in {tree[i].timer, NoTimer}

\* C20: once running is False no step applies a result to the session's
\* state: client and identity stay as they are, and so do the connection
\* flag, the catalog, the change markers and the heartbeat indicator; no
\* batch goes on to a further item and no tick is scheduled.
C20_NothingAppliedAfterShutdown ==
    [][ ~running => (UNCHANGED <<client, current_mac>> /\ ShutdownKeeps) ]_vars

====
